---- MODULE Spec2Model ----
(***************************************************************************)
(* A model of terminal-fire-lock (tfl.js): the lifecycle controller, the   *)
(* input tracker, the render loop, the signal guard and the timers that    *)
(* connect them.  Characters are their char codes, strings are sequences   *)
(* of char codes.  Every handler of the program is one action: Node runs   *)
(* a callback to completion before it delivers the next event.             *)
(***************************************************************************)
EXTENDS Integers, Sequences, FiniteSets, TLC

VARIABLES
    CONFIG,         \* the configuration record, frozen by parseArgs before start()
    started,        \* start() has run (the last statement of the file)
    running,        \* let running
    inputBuffer,    \* let inputBuffer, a sequence of char codes
    loopTimeout,    \* let loopTimeout: "null", "armed" (a pending timer), "stale"
    frameTimers,    \* number of pending setTimeout(loop, ...) callbacks
    timeoutHandle,  \* let timeoutHandle: "null", "armed", "stale"
    index,          \* showExitMessages: let index
    msgTimer,       \* pending timer of showExitMessages: "none", "printNext", "exit"
    count,          \* playUnlockSound: let count
    interval,       \* playUnlockSound: the interval is pending
    term,           \* the terminal and the registered listeners
    proc,           \* the process: "running", "stopped", "exited", "killed"
    exitCode,       \* the status given to process.exit, -1 while there is none
    width,          \* let width
    height,         \* let height
    fireBuffer,     \* let fireBuffer
    matrixDrops,    \* let matrixDrops: y and speed in half rows
    rainDrops,      \* let rainDrops: y and speed in half rows
    event,          \* the handler that ran last
    key,            \* the keypress event it was given, where a specification records it
    checks,         \* how often the last handler evaluated checkPassphrase
    effects,        \* what the last handler wrote to stdout, in order
    msgDue,         \* ms until the pending timer of showExitMessages is due
    intervalDue,    \* ms until the interval of playUnlockSound is due
    sinceMessage,   \* ms since the last exit message was written
    row,            \* the row the last exit message was written at
    typed,          \* the characters typed since start(), where a specification records them
    seedCell,       \* the cell of the fire buffer a decay starts from
    beat            \* flips with every frame tick, where a specification records it

vars == <<CONFIG, started, running, inputBuffer, loopTimeout, frameTimers,
          timeoutHandle, index, msgTimer, count, interval, term, proc,
          exitCode, width, height, fireBuffer,
          matrixDrops, rainDrops, event, key, checks, effects,
          msgDue, intervalDue, sinceMessage, row, typed, seedCell, beat>>

(***************************************************************************)
(* Bounds of the model.                                                    *)
(***************************************************************************)
\* the longest buffer typed from an empty one
MaxTyped == 3
\* the largest number of exit messages configured
MaxMessages == 2

(***************************************************************************)
(* Program constants.                                                      *)
(***************************************************************************)
BufferCap == 1000
BufferKeep == 500
PrintableMin == 32
PrintableMax == 126
UnlockPulses == 3
PulseSpacing == 150
DefaultMessageDelay == 1000
SeedIntensity == 65

(***************************************************************************)
(* Strings.                                                                *)
(***************************************************************************)
\* String.prototype.toLowerCase on one char code: 'A'..'Z' become 'a'..'z'
lowerCode(c) == IF c >= 65 /\ c <= 90 THEN c + 32 ELSE c

toLowerCase(s) == [i \in 1..Len(s) |-> lowerCode(s[i])]

\* mutant: the word is looked for at the start of s only
includesAtStart(s, word) ==
    Len(word) <= Len(s) /\ SubSeq(s, 1, Len(word)) = word

\* String.prototype.includes: word occurs in s from some position on
includes(s, word) ==
    \E i \in 0..(Len(s) - Len(word)) : SubSeq(s, i + 1, i + Len(word)) = word

\* buf.slice(0, -1)
sliceDropLast(buf) == SubSeq(buf, 1, Len(buf) - 1)

\* buf.slice(-n): the last n characters, the whole string when it is shorter
sliceLast(buf, n) ==
    IF Len(buf) <= n THEN buf ELSE SubSeq(buf, Len(buf) - n + 1, Len(buf))

(***************************************************************************)
(* Input tracker.                                                          *)
(***************************************************************************)
\* mutant: words.some in place of words.every
checkPassphraseSome(buf) ==
    LET words == SelectSeq(CONFIG.passphraseWords, LAMBDA w : w # <<>>)
        lower == toLowerCase(buf)
    IN  IF Len(words) = 0 THEN FALSE
        ELSE \E k \in 1..Len(words) : includes(lower, words[k])

checkPassphrase(buf) ==
    LET words == SelectSeq(CONFIG.passphraseWords, LAMBDA w : w # <<>>)
        lower == toLowerCase(buf)
    IN  IF Len(words) = 0 THEN FALSE
        ELSE \A k \in 1..Len(words) : includes(lower, words[k])

\* A keypress event (ch, key): ch is a string (<<>> when undefined), name is
\* key.name.  The buffer after the handler's append / backspace step.
keyed(buf, ev) ==
    IF Len(ev.ch) = 1
    THEN IF ev.ch[1] >= PrintableMin /\ ev.ch[1] <= PrintableMax
         THEN buf \o ev.ch
         ELSE buf
    ELSE IF ev.name = "backspace" THEN sliceDropLast(buf) ELSE buf

\* mutant: the oldest characters are kept, slice(0, 500)
truncatedKeepsOldest(buf) ==
    IF Len(buf) > BufferCap THEN SubSeq(buf, 1, BufferKeep) ELSE buf

\* if (inputBuffer.length > 1000) inputBuffer = inputBuffer.slice(-500)
truncated(buf) == IF Len(buf) > BufferCap THEN sliceLast(buf, BufferKeep) ELSE buf

(***************************************************************************)
(* Theme: fire (the default theme).                                        *)
(***************************************************************************)
\* let size = width * height
size(w, h) == w * h

\* mutant: the buffer has no room for the row below the last
initFireShort(w, h) == [i \in 1..size(w, h) |-> 0]

\* new Array(size + width + 1).fill(0)
initFire(w, h) == [i \in 1..(size(w, h) + w + 1) |-> 0]

\* Math.floor(width / 9) seeds, each at Math.floor(Math.random() * width) in
\* the bottom row: the sets of cells (0-based) one frame may seed
seedChoices(w, h) ==
    LET n == w \div 9
        bottom == {x + w * (h - 1) : x \in 0..(w - 1)}
    IN  IF n = 0 THEN {{}}
        ELSE {S \in SUBSET bottom : S # {} /\ Cardinality(S) <= n}

seeded(buf, S) ==
    [i \in 1..Len(buf) |-> IF (i - 1) \in S THEN SeedIntensity ELSE buf[i]]

\* mutant: the average is added to the cell
averagedAdded(buf, i, w) ==
    buf[i + 1] + (buf[i + 1] + buf[i + 2] + buf[i + w + 1] + buf[i + w + 2]) \div 4

\* mutant: the sum is not divided
averagedNot(buf, i, w) ==
    buf[i + 1] + buf[i + 2] + buf[i + w + 1] + buf[i + w + 2]

\* the value cell i (0-based) is given: Math.floor((fireBuffer[i] +
\* fireBuffer[i + 1] + fireBuffer[i + width] + fireBuffer[i + width + 1]) / 4)
averaged(buf, i, w) ==
    (buf[i + 1] + buf[i + 2] + buf[i + w + 1] + buf[i + w + 2]) \div 4

\* mutant: the loop runs from the last cell down, so a cell reads neighbours
\* this frame has already updated
RECURSIVE diffuseDown(_, _, _, _)
diffuseDown(buf, i, w, h) ==
    IF i >= size(w, h) THEN buf
    ELSE diffuseDown(
            IF size(w, h) - 1 - i + w + 1 < Len(buf)
            THEN [buf EXCEPT ![size(w, h) - i] = averaged(buf, size(w, h) - 1 - i, w)]
            ELSE buf,
            i + 1, w, h)

\* the diffusion loop, in place, from cell i (0-based) on
RECURSIVE diffuse(_, _, _, _)
diffuse(buf, i, w, h) ==
    IF i >= size(w, h) THEN buf
    ELSE diffuse(
            IF i + w + 1 < Len(buf)
            THEN [buf EXCEPT ![i + 1] = averaged(buf, i, w)]
            ELSE buf,
            i + 1, w, h)

\* the buffers renderFire may leave
renderFire(buf, w, h) == {diffuse(seeded(buf, S), 0, w, h) : S \in seedChoices(w, h)}

\* fireChars[val > 9 ? 9 : val]: the index of the glyph of a cell
glyphIndex(val) == IF val > 9 THEN 9 ELSE val

(***************************************************************************)
(* Themes: matrix and rain.  A drop's y and speed are in half rows: the    *)
(* speeds of the code are real numbers, the model takes the ones below.    *)
(***************************************************************************)
\* 0.5 + Math.random() * 1.5: 0.5 and 1.5
MatrixSpeeds == {1, 3}

\* 5 + Math.floor(Math.random() * 15): the two shortest
MatrixLengths == {5, 6}

\* 1 + Math.random() * 2: 1 and 2.5
RainSpeeds == {2, 5}

\* the sequences of length n whose k-th element is in choices[k]
sequencesOf(choices, n) ==
    {ds \in [1..n -> UNION {choices[k] : k \in 1..n}] :
        \A k \in 1..n : ds[k] \in choices[k]}

\* the drops initMatrix may leave: one per column
initMatrix(w, h) ==
    [1..w -> [y : {2 * r : r \in 0..(h - 1)}, speed : MatrixSpeeds,
              length : MatrixLengths]]

\* a drop of renderMatrix advanced, wrapped if it passed height + length
advancedMatrix(drop, h) ==
    IF drop.y + drop.speed > 2 * (h + drop.length)
    THEN [y : {-2 * drop.length}, speed : MatrixSpeeds, length : MatrixLengths]
    ELSE {[drop EXCEPT !.y = drop.y + drop.speed]}

renderMatrix(drops, w, h) ==
    sequencesOf([x \in 1..Len(drops) |-> advancedMatrix(drops[x], h)], Len(drops))

\* the drops initRain may leave: Math.floor(width * 0.3) of them
initRain(w, h) ==
    [1..((w * 3) \div 10) -> [x : 0..(w - 1), y : {2 * r : r \in 0..(h - 1)},
                              speed : RainSpeeds]]

\* mutant: a drop is wrapped only once it is past the bottom row
advancedRainLate(drop, w, h) ==
    IF drop.y + drop.speed > 2 * (h - 1)
    THEN [x : 0..(w - 1), y : {0}, speed : RainSpeeds]
    ELSE {[drop EXCEPT !.y = drop.y + drop.speed]}

\* a drop of renderRain advanced, wrapped if it reached height - 1
advancedRain(drop, w, h) ==
    IF drop.y + drop.speed >= 2 * (h - 1)
    THEN [x : 0..(w - 1), y : {0}, speed : RainSpeeds]
    ELSE {[drop EXCEPT !.y = drop.y + drop.speed]}

renderRain(drops, w, h) ==
    sequencesOf([k \in 1..Len(drops) |-> advancedRain(drops[k], w, h)], Len(drops))

\* the state of the themes
themeState ==
    [fireBuffer |-> fireBuffer, matrixDrops |-> matrixDrops, rainDrops |-> rainDrops]

themeBecomes(states) ==
    \E st \in states :
        /\ fireBuffer' = st.fireBuffer
        /\ matrixDrops' = st.matrixDrops
        /\ rainDrops' = st.rainDrops

\* initTheme: the theme states it may leave (initStatic does nothing)
initTheme(st, w, h) ==
    CASE CONFIG.theme = "matrix" ->
            {[st EXCEPT !.matrixDrops = drops] : drops \in initMatrix(w, h)}
      [] CONFIG.theme = "rain" ->
            {[st EXCEPT !.rainDrops = drops] : drops \in initRain(w, h)}
      [] CONFIG.theme = "static" -> {st}
      [] OTHER -> {[st EXCEPT !.fireBuffer = initFire(w, h)]}

\* renderTheme: the theme states it may leave (renderStatic keeps no state)
renderTheme(st, w, h) ==
    CASE CONFIG.theme = "matrix" ->
            {[st EXCEPT !.matrixDrops = drops] : drops \in renderMatrix(st.matrixDrops, w, h)}
      [] CONFIG.theme = "rain" ->
            {[st EXCEPT !.rainDrops = drops] : drops \in renderRain(st.rainDrops, w, h)}
      [] CONFIG.theme = "static" -> {st}
      [] OTHER -> {[st EXCEPT !.fireBuffer = buf] : buf \in renderFire(st.fireBuffer, w, h)}

(***************************************************************************)
(* Configurations and environments the model explores.                     *)
(***************************************************************************)
\* passphrases as parseArgs leaves them: ("a", "b") and ("ab")
WordLists == { << <<97>>, <<98>> >>, << <<97, 98>> >> }

\* CONFIG.timeout: 0 stands for null
Timeouts == {0, 1}

Configs ==
    [passphraseWords : WordLists,
     timeout         : Timeouts,
     exitMessages    : 1..MaxMessages,     \* the number of exit messages
     hint            : BOOLEAN,
     blockSignals    : BOOLEAN,
     sound           : BOOLEAN,
     messageDelay    : {DefaultMessageDelay},
     theme           : {"fire"}]

\* process.stdout.columns and rows
Dimensions == { <<1, 2>>, <<2, 3>> }

\* process.stdout.columns || 80, process.stdout.rows || 24
orDefault(v, d) == IF v = 0 THEN d ELSE v

SignalNames == {"SIGINT", "SIGTSTP", "SIGQUIT"}

\* no keypress event recorded
NoKey == [ch |-> <<>>, name |-> "none"]

\* the keypress events (ch, key.name) delivered to the lock: 'a', 'B', ' ',
\* ctrl-c in raw mode, backspace as DEL, backspace without a character (an
\* escaped sequence), an arrow key
LockKeyEvents ==
    { [ch |-> <<97>>,  name |-> "a"],
      [ch |-> <<66>>,  name |-> "b"],
      [ch |-> <<32>>,  name |-> "space"],
      [ch |-> <<3>>,   name |-> "c"],
      [ch |-> <<127>>, name |-> "backspace"],
      [ch |-> <<>>,    name |-> "backspace"],
      [ch |-> <<>>,    name |-> "up"] }

\* the keypress events given to the input tracker on its own: also '~', the
\* unit separator and backspace as BS
KeyEvents ==
    { [ch |-> <<97>>,  name |-> "a"],
      [ch |-> <<66>>,  name |-> "b"],
      [ch |-> <<32>>,  name |-> "space"],
      [ch |-> <<126>>, name |-> "undefined"],
      [ch |-> <<31>>,  name |-> "undefined"],
      [ch |-> <<3>>,   name |-> "c"],
      [ch |-> <<127>>, name |-> "backspace"],
      [ch |-> <<8>>,   name |-> "backspace"],
      [ch |-> <<>>,    name |-> "backspace"],
      [ch |-> <<>>,    name |-> "up"] }

(***************************************************************************)
(* Terminal restoration and process exit.                                  *)
(***************************************************************************)
\* mutant: raw mode is toggled, not switched off
cleanupToggles(t) ==
    [t EXCEPT !.listeners = @ \ ({"keypress", "resize"} \cup
                                  (IF CONFIG.blockSignals THEN SignalNames ELSE {})),
              !.rawMode = IF t.isTTY THEN ~@ ELSE @,
              !.cursorHidden = FALSE,
              !.cleanups = @ + 1]

cleanup(t) ==
    [t EXCEPT !.listeners = @ \ ({"keypress", "resize"} \cup
                                  (IF CONFIG.blockSignals THEN SignalNames ELSE {})),
              !.rawMode = IF t.isTTY THEN FALSE ELSE @,
              !.cursorHidden = FALSE,
              !.cleanups = @ + 1]

\* what cleanup writes: show cursor and reset styling, then clear the screen
cleanupWrites == <<"restore", "clear">>

\* process.exit emits 'exit': the once-listener of line 642 runs and is removed
exitHook(t) ==
    IF "exit" \in t.listeners
    THEN cleanup([t EXCEPT !.listeners = @ \ {"exit"}])
    ELSE t

exitHookWrites(t) == IF "exit" \in t.listeners THEN cleanupWrites ELSE <<>>

\* mutant: the frame timer is left pending
clearLoopNot == UNCHANGED <<frameTimers, loopTimeout>>

\* clearTimeout(loopTimeout) behind if (loopTimeout)
clearLoop ==
    /\ frameTimers' = IF loopTimeout = "armed" THEN frameTimers - 1 ELSE frameTimers
    /\ loopTimeout' = IF loopTimeout = "armed" THEN "stale" ELSE loopTimeout

\* mutant: no listener is registered for SIGQUIT
signalListenersNoQuit == IF CONFIG.blockSignals THEN {"SIGINT", "SIGTSTP"} ELSE {}

\* the signal guard: the listeners registered when CONFIG.blockSignals
signalListeners == IF CONFIG.blockSignals THEN SignalNames ELSE {}

(***************************************************************************)
(* The state before start().                                               *)
(***************************************************************************)
loadedIn(config, d) ==
    /\ CONFIG = config
    /\ started = FALSE
    /\ running = TRUE
    /\ inputBuffer = <<>>
    /\ loopTimeout = "null"
    /\ frameTimers = 0
    /\ timeoutHandle = "null"
    /\ index = 0
    /\ msgTimer = "none"
    /\ count = 0
    /\ interval = FALSE
    /\ term = [isTTY |-> TRUE, rawMode |-> FALSE, cursorHidden |-> FALSE, cleanups |-> 0,
               listeners |-> {"resize", "exit"} \cup signalListeners]
    /\ proc = "running"
    /\ exitCode = -1
    /\ width = d[1]
    /\ height = d[2]
    /\ fireBuffer = <<>>
    /\ matrixDrops = <<>>
    /\ rainDrops = <<>>
    /\ event = "load"
    /\ key = NoKey
    /\ checks = 0
    /\ effects = <<>>
    /\ msgDue = 0
    /\ intervalDue = 0
    /\ sinceMessage = 0
    /\ row = 0
    /\ typed = <<>>
    /\ seedCell = 0
    /\ beat = FALSE

loaded(config) == \E d \in Dimensions : loadedIn(config, d)

Init == \E config \in Configs : loaded(config)

(***************************************************************************)
(* Render loop.                                                            *)
(***************************************************************************)
\* what render writes: the theme frame, the banner, the hint if configured
renderWrites == <<"frame", "banner">> \o (IF CONFIG.hint THEN <<"hint">> ELSE <<>>)

\* mutant: loop() renders and does not set the timer for the next frame
loopOnce(pending, st, pre) ==
    /\ frameTimers' = pending
    /\ loopTimeout' = IF loopTimeout = "armed" /\ pending = 0
                       THEN "stale" ELSE loopTimeout
    /\ IF ~running
       THEN themeBecomes({st}) /\ effects' = pre
       ELSE /\ themeBecomes(renderTheme(st, width, height))
            /\ effects' = pre \o renderWrites

\* loop(), entered with `pending` frame timers still pending, the theme
\* state st and the writes `pre` the handler made before it
loop(pending, st, pre) ==
    IF ~running
    THEN /\ frameTimers' = pending
         /\ loopTimeout' = IF loopTimeout = "armed" /\ pending = 0
                            THEN "stale" ELSE loopTimeout
         /\ themeBecomes({st})
         /\ effects' = pre
    ELSE /\ themeBecomes(renderTheme(st, width, height))
         /\ effects' = pre \o renderWrites
         /\ loopTimeout' = "armed"
         /\ frameTimers' = pending + 1

\* start(): hide the cursor and clear, initTheme, setupInput, setupTimeout, loop
Start ==
    /\ ~started
    /\ proc = "running"
    /\ started' = TRUE
    /\ term' = [term EXCEPT !.cursorHidden = TRUE,
                            !.rawMode = IF term.isTTY THEN TRUE ELSE @,
                            !.listeners = @ \cup {"keypress"}]
    /\ timeoutHandle' = IF CONFIG.timeout # 0 THEN "armed" ELSE timeoutHandle
    /\ \E st \in initTheme(themeState, width, height) :
          loop(frameTimers, st, <<"hide", "clear">>)
    /\ event' = "start"
    /\ UNCHANGED key
    /\ UNCHANGED <<msgDue, intervalDue, sinceMessage, row, typed, seedCell,
                   beat>>
    /\ checks' = 0
    /\ UNCHANGED <<CONFIG, running, inputBuffer, index, msgTimer, count, interval,
                   proc, exitCode, width, height>>

\* the timer set by loop fires: loop()
FrameHandler ==
    /\ started
    /\ proc = "running"
    /\ frameTimers > 0
    /\ loop(frameTimers - 1, themeState, <<>>)
    /\ event' = "frame"
    /\ UNCHANGED key
    /\ UNCHANGED <<msgDue, intervalDue, sinceMessage, row, typed, seedCell>>
    /\ checks' = 0
    /\ UNCHANGED <<CONFIG, started, running, inputBuffer, timeoutHandle, index,
                   msgTimer, count, interval, term, proc, exitCode, width, height>>

\* a frame tick
FrameTick == FrameHandler /\ UNCHANGED beat

\* a frame tick, recorded
FrameBeat == FrameHandler /\ beat' = ~beat

\* mutant: the resize handler redraws at once by calling loop()
resizedRedraws(d) ==
    /\ started
    /\ proc = "running"
    /\ "resize" \in term.listeners
    /\ width' = orDefault(d[1], 80)
    /\ height' = orDefault(d[2], 24)
    /\ \E st \in initTheme(themeState, width', height') :
          /\ themeBecomes({st})
          /\ effects' = <<>>
          /\ loopTimeout' = IF running THEN "armed" ELSE loopTimeout
          /\ frameTimers' = IF running THEN frameTimers + 1 ELSE frameTimers
    /\ event' = "resize"
    /\ UNCHANGED key
    /\ UNCHANGED <<msgDue, intervalDue, sinceMessage, row, typed, seedCell,
                   beat>>
    /\ checks' = 0
    /\ UNCHANGED <<CONFIG, started, running, inputBuffer,
                   timeoutHandle, index, msgTimer, count, interval, term, proc,
                   exitCode>>

\* process.stdout 'resize', the terminal now of dimensions d
resized(d) ==
    /\ started
    /\ proc = "running"
    /\ "resize" \in term.listeners
    /\ width' = orDefault(d[1], 80)
    /\ height' = orDefault(d[2], 24)
    /\ themeBecomes(initTheme(themeState, width', height'))
    /\ effects' = <<>>
    /\ event' = "resize"
    /\ UNCHANGED key
    /\ UNCHANGED <<msgDue, intervalDue, sinceMessage, row, typed, seedCell,
                   beat>>
    /\ checks' = 0
    /\ UNCHANGED <<CONFIG, started, running, inputBuffer, loopTimeout, frameTimers,
                   timeoutHandle, index, msgTimer, count, interval, term, proc,
                   exitCode>>

Resize == \E d \in Dimensions : resized(d)

(***************************************************************************)
(* Exit sequence.                                                          *)
(***************************************************************************)
\* the row of message i: Math.floor(height / 2) -
\* Math.floor(CONFIG.exitMessages.length / 2) + index + 1
messageRow(i) == (height \div 2) - (CONFIG.exitMessages \div 2) + i + 1

\* mutant: past the last message the exit is due at once, no further delay
printNextExitsAtOnce(i, pre) ==
    IF i >= CONFIG.exitMessages
    THEN /\ msgTimer' = "exit"
         /\ msgDue' = 0
         /\ index' = i
         /\ effects' = pre
         /\ UNCHANGED <<sinceMessage, row>>
    ELSE /\ effects' = pre \o <<"message">>
         /\ row' = messageRow(i)
         /\ sinceMessage' = 0
         /\ index' = i + 1
         /\ msgTimer' = "printNext"
         /\ msgDue' = CONFIG.messageDelay

\* printNext with index = i, after the writes `pre`
printNext(i, pre) ==
    IF i >= CONFIG.exitMessages
    THEN /\ msgTimer' = "exit"
         /\ msgDue' = CONFIG.messageDelay
         /\ index' = i
         /\ effects' = pre
         /\ UNCHANGED <<sinceMessage, row>>
    ELSE /\ effects' = pre \o <<"message">>
         /\ row' = messageRow(i)
         /\ sinceMessage' = 0
         /\ index' = i + 1
         /\ msgTimer' = "printNext"
         /\ msgDue' = CONFIG.messageDelay

\* setTimeout(printNext, CONFIG.messageDelay) fires
PrintNextTick ==
    /\ proc = "running"
    /\ msgTimer = "printNext"
    /\ printNext(index, <<>>)
    /\ event' = "printNext"
    /\ UNCHANGED key
    /\ UNCHANGED <<intervalDue, typed, seedCell,
                   beat>>
    /\ checks' = 0
    /\ UNCHANGED <<CONFIG, started, running, inputBuffer, loopTimeout, frameTimers,
                   timeoutHandle, count, interval, term, proc, exitCode, width,
                   height, fireBuffer,
          matrixDrops, rainDrops>>

\* the last timer of showExitMessages fires: cleanup(); process.exit(0)
ExitTick ==
    /\ proc = "running"
    /\ msgTimer = "exit"
    /\ msgTimer' = "none"
    /\ term' = exitHook(cleanup(term))
    /\ effects' = cleanupWrites \o exitHookWrites(cleanup(term))
    /\ proc' = "exited"
    /\ exitCode' = 0
    /\ event' = "exit"
    /\ UNCHANGED key
    /\ UNCHANGED <<msgDue, intervalDue, sinceMessage, row, typed, seedCell,
                   beat>>
    /\ checks' = 0
    /\ UNCHANGED <<CONFIG, started, running, inputBuffer, loopTimeout, frameTimers,
                   timeoutHandle, index, count, interval, width, height, fireBuffer,
          matrixDrops, rainDrops>>

\* the interval of playUnlockSound fires
IntervalTick ==
    /\ proc = "running"
    /\ interval
    /\ effects' = <<"bell">>
    /\ count' = count + 1
    /\ interval' = ~(count + 1 >= UnlockPulses)
    /\ intervalDue' = IF count + 1 >= UnlockPulses THEN 0 ELSE PulseSpacing
    /\ event' = "interval"
    /\ UNCHANGED key
    /\ UNCHANGED <<msgDue, sinceMessage, row, typed, seedCell,
                   beat>>
    /\ checks' = 0
    /\ UNCHANGED <<CONFIG, started, running, inputBuffer, loopTimeout, frameTimers,
                   timeoutHandle, index, msgTimer, term, proc, exitCode, width,
                   height, fireBuffer,
          matrixDrops, rainDrops>>

(***************************************************************************)
(* Input handling.                                                         *)
(***************************************************************************)
\* mutants: the early return missing; the early return taken only once the
\* exit timer is set
keypressReturnsNever == FALSE

keypressReturnsLate == ~running /\ msgTimer = "exit"

\* if (!running) return
keypressReturns == ~running

\* mutant: the timeout timer is left pending
clearedNot(h) == h

\* clearTimeout(timeoutHandle) behind if (timeoutHandle)
cleared(h) == IF h = "armed" THEN "stale" ELSE h

\* the 'keypress' listener of setupInput
KeypressHandler(ev) ==
    /\ started
    /\ proc = "running"
    /\ "keypress" \in term.listeners
    /\ event' = "keypress"
    /\ IF keypressReturns
       THEN /\ checks' = 0
            /\ effects' = <<>>
            /\ UNCHANGED <<running, inputBuffer, loopTimeout, frameTimers,
                           timeoutHandle, index, msgTimer, count, interval,
                           msgDue, intervalDue, sinceMessage, row>>
       ELSE LET buf == truncated(keyed(inputBuffer, ev))
            IN  /\ inputBuffer' = buf
                /\ checks' = 1
                /\ IF checkPassphrase(buf)
                   THEN /\ running' = FALSE
                        /\ clearLoop
                        /\ timeoutHandle' = cleared(timeoutHandle)
                        /\ IF CONFIG.sound
                           THEN /\ count' = 0
                                /\ interval' = TRUE
                                /\ intervalDue' = PulseSpacing
                           ELSE UNCHANGED <<count, interval, intervalDue>>
                        /\ printNext(0, <<"clear">>)
                   ELSE /\ effects' = <<>>
                        /\ UNCHANGED <<running, loopTimeout, frameTimers,
                                       timeoutHandle, index, msgTimer, count,
                                       interval, msgDue, intervalDue,
                                       sinceMessage, row>>
    /\ UNCHANGED <<CONFIG, started, term, proc, exitCode, width, height, fireBuffer,
          matrixDrops, rainDrops,
                   seedCell,
                   beat>>

\* a keypress, the typed buffer kept within the model's bound
Keypress ==
    \E ev \in LockKeyEvents :
        /\ Len(keyed(inputBuffer, ev)) <= MaxTyped
        /\ KeypressHandler(ev)
        /\ UNCHANGED <<key, typed>>

(***************************************************************************)
(* Auto-timeout.                                                           *)
(***************************************************************************)
\* the timer of setupTimeout fires
TimeoutFire ==
    /\ proc = "running"
    /\ timeoutHandle = "armed"
    /\ timeoutHandle' = "stale"
    /\ running' = FALSE
    /\ clearLoop
    /\ term' = exitHook(cleanup(term))
    /\ effects' = cleanupWrites \o exitHookWrites(cleanup(term))
    /\ proc' = "exited"
    /\ exitCode' = 1
    /\ event' = "timeout"
    /\ UNCHANGED key
    /\ UNCHANGED <<msgDue, intervalDue, sinceMessage, row, typed, seedCell,
                   beat>>
    /\ checks' = 0
    /\ UNCHANGED <<CONFIG, started, inputBuffer, index, msgTimer, count, interval,
                   width, height, fireBuffer,
          matrixDrops, rainDrops>>

(***************************************************************************)
(* Signals.                                                                *)
(***************************************************************************)
\* mutant: the bell is written whether or not sound is enabled
playBeepAlways == <<"bell">>

\* playBeep
playBeep == IF CONFIG.sound THEN <<"bell">> ELSE <<>>

\* SIGINT, SIGTSTP or SIGQUIT with a listener registered (lines 287-291)
SignalHandled ==
    /\ started
    /\ proc = "running"
    /\ \E sig \in SignalNames : sig \in term.listeners
    /\ effects' = playBeep
    /\ event' = "signal"
    /\ UNCHANGED key
    /\ UNCHANGED <<msgDue, intervalDue, sinceMessage, row, typed, seedCell,
                   beat>>
    /\ checks' = 0
    /\ UNCHANGED <<CONFIG, started, running, inputBuffer, loopTimeout, frameTimers,
                   timeoutHandle, index, msgTimer, count, interval, term, proc,
                   exitCode, width, height, fireBuffer,
          matrixDrops, rainDrops>>

\* the outcome of a signal no listener is registered for: SIGINT and SIGQUIT
\* end the process at once, SIGTSTP stops it
defaultDisposition(sig) == IF sig = "SIGTSTP" THEN "stopped" ELSE "killed"

SignalDefault ==
    /\ started
    /\ proc = "running"
    /\ \E sig \in SignalNames :
          /\ sig \notin term.listeners
          /\ proc' = defaultDisposition(sig)
    /\ effects' = <<>>
    /\ event' = "signal"
    /\ UNCHANGED key
    /\ UNCHANGED <<msgDue, intervalDue, sinceMessage, row, typed, seedCell,
                   beat>>
    /\ checks' = 0
    /\ UNCHANGED <<CONFIG, started, running, inputBuffer, loopTimeout, frameTimers,
                   timeoutHandle, index, msgTimer, count, interval, term,
                   exitCode, width, height, fireBuffer,
          matrixDrops, rainDrops>>

\* SIGCONT resumes a stopped process
Continue ==
    /\ proc = "stopped"
    /\ proc' = "running"
    /\ effects' = <<>>
    /\ event' = "continue"
    /\ UNCHANGED key
    /\ UNCHANGED <<msgDue, intervalDue, sinceMessage, row, typed, seedCell,
                   beat>>
    /\ checks' = 0
    /\ UNCHANGED <<CONFIG, started, running, inputBuffer, loopTimeout, frameTimers,
                   timeoutHandle, index, msgTimer, count, interval, term,
                   exitCode, width, height, fireBuffer,
          matrixDrops, rainDrops>>

Next ==
    \/ Start
    \/ FrameTick
    \/ Resize
    \/ Keypress
    \/ PrintNextTick
    \/ ExitTick
    \/ IntervalTick
    \/ TimeoutFire
    \/ SignalHandled
    \/ SignalDefault
    \/ Continue

Spec == Init /\ [][Next]_vars

(***************************************************************************)
(* The program with its frame ticks recorded: start() runs, and the timer  *)
(* of the render loop fires when it is due.  The theme is the one that     *)
(* keeps no state.                                                         *)
(***************************************************************************)
LoopConfigs ==
    [passphraseWords : {<< <<97, 98>> >>},
     timeout         : Timeouts,
     exitMessages    : {1},
     hint            : {FALSE},
     blockSignals    : BOOLEAN,
     sound           : BOOLEAN,
     messageDelay    : {DefaultMessageDelay},
     theme           : {"static"}]

LoopInit == \E config \in LoopConfigs : loaded(config)

LoopNext ==
    \/ Start
    \/ FrameBeat
    \/ Resize
    \/ Keypress
    \/ PrintNextTick
    \/ ExitTick
    \/ IntervalTick
    \/ TimeoutFire
    \/ SignalHandled
    \/ SignalDefault
    \/ Continue

LoopSpec == LoopInit /\ [][LoopNext]_vars /\ WF_vars(Start) /\ WF_vars(FrameBeat)


\* the lifecycle state of the specification
Lifecycle ==
    IF proc \in {"exited", "killed"} THEN "Exited"
    ELSE IF running THEN "Locked" ELSE "Unlocking"

(***************************************************************************)
(* The passphrase predicate on its own: any word list, the empty one and   *)
(* lists with overlapping or repeated words included, and buffers typed    *)
(* in both cases.                                                          *)
(***************************************************************************)
MaxMatchLen == 4

\* (), ("a", "b"), ("ab"), ("ab", "ba"), ("b", "b")
MatchWordLists ==
    WordLists \cup { <<>>, << <<97, 98>>, <<98, 97>> >>, << <<98>>, <<98>> >> }

MatchConfigs ==
    [passphraseWords : MatchWordLists,
     timeout         : {0},
     exitMessages    : {1},
     hint            : {FALSE},
     blockSignals    : {TRUE},
     sound           : {FALSE},
     messageDelay    : {DefaultMessageDelay},
     theme           : {"fire"}]

\* 'a', 'b', 'A', 'B', ' ' and backspace without a character
MatchKeyEvents ==
    { [ch |-> <<97>>, name |-> "a"],
      [ch |-> <<98>>, name |-> "b"],
      [ch |-> <<65>>, name |-> "a"],
      [ch |-> <<66>>, name |-> "b"],
      [ch |-> <<32>>, name |-> "space"],
      [ch |-> <<>>,   name |-> "backspace"] }

MatchInit == \E config \in MatchConfigs : loaded(config)

KeypressMatch ==
    \E ev \in MatchKeyEvents :
        /\ Len(keyed(inputBuffer, ev)) <= MaxMatchLen
        /\ KeypressHandler(ev)
        /\ UNCHANGED <<key, typed>>

MatchNext ==
    \/ Start
    \/ KeypressMatch

MatchSpec == MatchInit /\ [][MatchNext]_vars

(***************************************************************************)
(* The input tracker on its own, the keypress events recorded: the lock    *)
(* after start() with nothing typed (TypingSpec), and with a buffer typed  *)
(* so far that holds no match and is a few characters below the cap        *)
(* (InputSpec).                                                            *)
(***************************************************************************)
\* how far below the cap the long buffers start
MaxNearCap == 2

\* the characters typed so far, repeated: 'a', ' ', '~'
TypedPattern == <<97, 32, 126>>

typedSoFar(n) == [i \in 1..n |-> TypedPattern[((i - 1) % Len(TypedPattern)) + 1]]

InputConfigs ==
    [passphraseWords : WordLists,
     timeout         : {0},
     exitMessages    : {1},
     hint            : {FALSE},
     blockSignals    : {TRUE},
     sound           : {FALSE},
     messageDelay    : {DefaultMessageDelay},
     theme           : {"fire"}]

\* the state start() and the keypresses typing buf leave, the lock still on,
\* in a terminal of dimensions d (typed is left to the specification)
locked(config, d, buf) ==
    /\ CONFIG = config
    /\ started = TRUE
    /\ running = TRUE
    /\ inputBuffer = buf
    /\ loopTimeout = "armed"
    /\ frameTimers = 1
    /\ timeoutHandle = IF config.timeout # 0 THEN "armed" ELSE "null"
    /\ index = 0
    /\ msgTimer = "none"
    /\ count = 0
    /\ interval = FALSE
    /\ term = [isTTY |-> TRUE, rawMode |-> TRUE, cursorHidden |-> TRUE, cleanups |-> 0,
               listeners |-> {"resize", "exit", "keypress"} \cup
                             (IF config.blockSignals THEN SignalNames ELSE {})]
    /\ proc = "running"
    /\ exitCode = -1
    /\ width = d[1]
    /\ height = d[2]
    /\ fireBuffer \in renderFire(initFire(d[1], d[2]), d[1], d[2])
    /\ matrixDrops = <<>>
    /\ rainDrops = <<>>
    /\ event = IF buf = <<>> THEN "start" ELSE "keypress"
    /\ key = NoKey
    /\ checks = IF buf = <<>> THEN 0 ELSE 1
    /\ effects = IF buf = <<>>
                  THEN <<"hide", "clear", "frame", "banner">> \o
                       (IF config.hint THEN <<"hint">> ELSE <<>>)
                  ELSE <<>>
    /\ msgDue = 0
    /\ intervalDue = 0
    /\ sinceMessage = 0
    /\ row = 0
    /\ seedCell = 0
    /\ beat = FALSE

InputInit ==
    \E config \in InputConfigs :
        \E n \in (BufferCap - MaxNearCap)..BufferCap :
            locked(config, <<2, 3>>, typedSoFar(n)) /\ typed = <<>>

TypingInit ==
    \E config \in InputConfigs : locked(config, <<2, 3>>, <<>>) /\ typed = <<>>

\* a keypress, recorded; the buffer stays short or near the cap
KeypressRecorded ==
    \E ev \in KeyEvents :
        /\ \/ Len(keyed(inputBuffer, ev)) <= MaxTyped
           \/ Len(keyed(inputBuffer, ev)) >= BufferCap - MaxNearCap
        /\ KeypressHandler(ev)
        /\ key' = ev
        /\ UNCHANGED typed

InputNext == KeypressRecorded

InputSpec == InputInit /\ [][InputNext]_vars

TypingSpec == TypingInit /\ [][InputNext]_vars

(***************************************************************************)
(* The exit sequence in time.  The timers of showExitMessages and of       *)
(* playUnlockSound fire when they are due; time passes up to the next one  *)
(* due.  The signal guard is on and no timeout is configured.              *)
(***************************************************************************)
\* CONFIG.messageDelay, in ms: shorter and longer than the pulses take
MessageDelays == {70, DefaultMessageDelay}

TimedConfigs ==
    [passphraseWords : WordLists,
     timeout         : {0},
     exitMessages    : 1..MaxMessages,
     hint            : {FALSE},
     blockSignals    : {TRUE},
     sound           : BOOLEAN,
     messageDelay    : MessageDelays,
     theme           : {"fire"}]

TimedInit == \E config \in TimedConfigs : loaded(config)

\* the ms until each pending timer of the exit sequence is due
pendingDue ==
    (IF msgTimer # "none" THEN {msgDue} ELSE {}) \cup
    (IF interval THEN {intervalDue} ELSE {})

minimum(S) == CHOOSE m \in S : \A n \in S : m <= n

\* time passes until the next timer is due
Advance ==
    /\ proc = "running"
    /\ pendingDue # {}
    /\ minimum(pendingDue) > 0
    /\ msgDue' = IF msgTimer # "none" THEN msgDue - minimum(pendingDue) ELSE msgDue
    /\ intervalDue' = IF interval THEN intervalDue - minimum(pendingDue)
                      ELSE intervalDue
    /\ sinceMessage' = sinceMessage + minimum(pendingDue)
    /\ event' = "time"
    /\ effects' = <<>>
    /\ checks' = 0
    /\ UNCHANGED <<CONFIG, started, running, inputBuffer, loopTimeout, frameTimers,
                   timeoutHandle, index, msgTimer, count, interval, term, proc,
                   exitCode, width, height, fireBuffer,
          matrixDrops, rainDrops, key, row, typed, seedCell,
                   beat>>

TimedPrintNext == msgDue = 0 /\ PrintNextTick

TimedExit == msgDue = 0 /\ ExitTick

TimedInterval == intervalDue = 0 /\ IntervalTick

TimedNext ==
    \/ Start
    \/ FrameTick
    \/ Resize
    \/ Keypress
    \/ SignalHandled
    \/ Advance
    \/ TimedPrintNext
    \/ TimedExit
    \/ TimedInterval

\* a timer that is due fires, and time does not stand still
TimedSpec ==
    /\ TimedInit
    /\ [][TimedNext]_vars
    /\ WF_vars(Advance)
    /\ WF_vars(TimedPrintNext)
    /\ WF_vars(TimedExit)
    /\ WF_vars(TimedInterval)

(***************************************************************************)
(* The input tracker with everything typed since start() recorded, no      *)
(* backspace among it: a word of the passphrase typed first, then other    *)
(* characters up to a few below the cap.                                   *)
(***************************************************************************)
\* 'a' and then n - 1 spaces
wordThenOthers(n) == [i \in 1..n |-> IF i = 1 THEN 97 ELSE 32]

\* printable keypresses: 'a', 'B', ' '
PrintableKeyEvents ==
    { [ch |-> <<97>>, name |-> "a"],
      [ch |-> <<66>>, name |-> "b"],
      [ch |-> <<32>>, name |-> "space"] }

RetypeInit ==
    \E config \in InputConfigs :
        \E n \in (BufferCap - MaxNearCap)..BufferCap :
            locked(config, <<2, 3>>, wordThenOthers(n)) /\ typed = wordThenOthers(n)

\* a printable keypress while the lock is on, recorded
KeypressTyped ==
    \E ev \in PrintableKeyEvents :
        /\ running
        /\ Len(typed) < BufferCap + MaxNearCap
        /\ KeypressHandler(ev)
        /\ key' = ev
        /\ typed' = typed \o ev.ch

RetypeNext == KeypressTyped

RetypeSpec == RetypeInit /\ [][RetypeNext]_vars

(***************************************************************************)
(* The themes on their own: start(), the frames and the resizes, in        *)
(* terminals wide enough for the theme to have something to draw.          *)
(***************************************************************************)
\* stars keeps real-valued phases and is left out
Themes == {"fire", "matrix", "rain", "static"}

ThemeConfigs ==
    [passphraseWords : {<< <<97, 98>> >>},
     timeout         : {0},
     exitMessages    : {1},
     hint            : {FALSE},
     blockSignals    : {TRUE},
     sound           : {FALSE},
     messageDelay    : {DefaultMessageDelay},
     theme           : Themes]

\* process.stdout.columns and rows: fire seeds Math.floor(width / 9) cells,
\* rain has Math.floor(width * 0.3) drops
themeDimensions(theme) ==
    CASE theme = "fire" -> { <<2, 3>>, <<9, 1>> }
      [] theme = "rain" -> { <<4, 3>>, <<7, 2>> }
      [] OTHER -> { <<1, 3>>, <<2, 2>> }

ThemeInit ==
    \E config \in ThemeConfigs :
        \E d \in themeDimensions(config.theme) : loadedIn(config, d)

ResizeTheme == \E d \in themeDimensions(CONFIG.theme) : resized(d)

ThemeNext ==
    \/ Start
    \/ FrameTick
    \/ ResizeTheme

ThemeSpec == ThemeInit /\ [][ThemeNext]_vars

(***************************************************************************)
(* The fire diffusion on its own: the buffer of initFire with one cell of  *)
(* the bottom row seeded, and frames that seed no further cell.            *)
(***************************************************************************)
MaxDecayWidth == 5
MaxDecayHeight == 3

DecayInit ==
    \E config \in ThemeConfigs :
        \E w \in 1..MaxDecayWidth, h \in 1..MaxDecayHeight :
            \E x \in 0..(w - 1) :
                /\ config.theme = "fire"
                /\ CONFIG = config
                /\ started = TRUE
                /\ running = TRUE
                /\ inputBuffer = <<>>
                /\ loopTimeout = "armed"
                /\ frameTimers = 1
                /\ timeoutHandle = "null"
                /\ index = 0
                /\ msgTimer = "none"
                /\ count = 0
                /\ interval = FALSE
                /\ term = [isTTY |-> TRUE, rawMode |-> TRUE, cursorHidden |-> TRUE,
                           cleanups |-> 0,
                           listeners |-> {"resize", "exit", "keypress"} \cup SignalNames]
                /\ proc = "running"
                /\ exitCode = -1
                /\ width = w
                /\ height = h
                /\ seedCell = x + w * (h - 1)
                /\ fireBuffer = seeded(initFire(w, h), {x + w * (h - 1)})
                /\ matrixDrops = <<>>
                /\ rainDrops = <<>>
                /\ event = "frame"
                /\ key = NoKey
                /\ checks = 0
                /\ effects = <<>>
                /\ msgDue = 0
                /\ intervalDue = 0
                /\ sinceMessage = 0
                /\ row = 0
                /\ typed = <<>>
                /\ beat = FALSE

\* the diffusion loop of renderFire, no cell seeded before it
Decay ==
    /\ fireBuffer' = diffuse(fireBuffer, 0, width, height)
    /\ UNCHANGED <<CONFIG, started, running, inputBuffer, loopTimeout, frameTimers,
                   timeoutHandle, index, msgTimer, count, interval, term, proc,
                   exitCode, width, height, matrixDrops, rainDrops, event, key,
                   checks, effects, msgDue, intervalDue, sinceMessage, row, typed,
                   seedCell,
                   beat>>

DecayNext == Decay

DecaySpec == DecayInit /\ [][DecayNext]_vars

(***************************************************************************)
(* Reference notions the properties are stated with.                       *)
(***************************************************************************)
\* c and d are the same character up to case, d being lower case
sameLetter(c, d) == c = d \/ (c >= 65 /\ c <= 90 /\ d = c + 32)

\* word occurs in buf, case-insensitively, as a contiguous substring
occurs(word, buf) ==
    \E p \in 1..Len(buf) :
        \A j \in 1..Len(word) :
            /\ p + j - 1 <= Len(buf)
            /\ sameLetter(buf[p + j - 1], word[j])

\* matches(S, W) of the specification
matches(buf, words) ==
    /\ words # <<>>
    /\ \A k \in 1..Len(words) : occurs(words[k], buf)

(***************************************************************************)
(* C1: once the lifecycle has left Locked, no event has a Locked-phase     *)
(* effect: no later step writes a theme frame, the banner or the hint,     *)
(* changes the input buffer or evaluates checkPassphrase.                  *)
(***************************************************************************)
C1_NoLockedEffectAfterLocked ==
    [][Lifecycle # "Locked" =>
         /\ inputBuffer' = inputBuffer
         /\ checks' = 0
         /\ \A i \in 1..Len(effects') : effects'[i] \notin {"frame", "banner", "hint"}]_vars

\* a keypress was delivered after the unlock and was ignored
C1_Witness ==
    /\ Lifecycle = "Unlocking"
    /\ event = "keypress"
    /\ checks = 0

(***************************************************************************)
(* C2: the lifecycle only moves forward, Locked -> Unlocking -> Exited or  *)
(* Locked -> Exited, and the unlock branch of the keypress handler (the    *)
(* entry into Unlocking) runs only from Locked, hence at most once.        *)
(***************************************************************************)
C2_LifecycleForward ==
    [][/\ <<Lifecycle, Lifecycle'>> \in
            { <<"Locked", "Locked">>, <<"Locked", "Unlocking">>,
              <<"Locked", "Exited">>, <<"Unlocking", "Unlocking">>,
              <<"Unlocking", "Exited">>, <<"Exited", "Exited">> }
       /\ (event' = "keypress" /\ checks' = 1 /\ ~running') => Lifecycle = "Locked"]_vars

\* the process went through Unlocking and exited
C2_Witness ==
    /\ Lifecycle = "Exited"
    /\ exitCode = 0
    /\ index = CONFIG.exitMessages

(***************************************************************************)
(* C3: while Locked, a step moves the lifecycle to Unlocking exactly when  *)
(* it is a keypress after which the buffer contains every passphrase word; *)
(* a Locked buffer never contains them all.                                *)
(***************************************************************************)
C3_UnlockExactlyOnMatch ==
    [][Lifecycle = "Locked" =>
         /\ ~matches(inputBuffer, CONFIG.passphraseWords)
         /\ (Lifecycle' = "Unlocking") <=>
                (event' = "keypress" /\ checks' = 1
                    /\ matches(inputBuffer', CONFIG.passphraseWords))]_vars

\* words ("a", "b"): "a " left the state Locked, typing on to "a B" unlocked
C3_Witness ==
    /\ CONFIG.passphraseWords = << <<97>>, <<98>> >>
    /\ inputBuffer = <<97, 32, 66>>
    /\ Lifecycle = "Unlocking"
    /\ event = "keypress"
    /\ checks = 1

(***************************************************************************)
(* C4: checkPassphrase(buffer) is the reference predicate: false for the   *)
(* empty word list, otherwise true iff every word occurs in the buffer as  *)
(* a contiguous substring up to case, wherever and in whatever order.      *)
(***************************************************************************)
C4_CheckPassphraseIsMatches ==
    checkPassphrase(inputBuffer) = matches(inputBuffer, CONFIG.passphraseWords)

\* words ("ab", "ba"), typed "aBa": the occurrences overlap, one in upper case
C4_Witness ==
    /\ CONFIG.passphraseWords = << <<97, 98>>, <<98, 97>> >>
    /\ inputBuffer = <<97, 66, 97>>
    /\ event = "keypress"
    /\ checks = 1
    /\ ~running

(***************************************************************************)
(* C5: after every keypress handler the buffer holds at most 1000          *)
(* characters, and when the keypress pushed it above 1000 the buffer is    *)
(* the last 500 characters of the one before the truncation, in order.     *)
(***************************************************************************)
C5_BufferCapped ==
    [][(event' = "keypress" /\ checks' = 1) =>
         LET pre == keyed(inputBuffer, key')
         IN  /\ Len(inputBuffer') <= BufferCap
             /\ Len(pre) > BufferCap =>
                   /\ Len(inputBuffer') = BufferKeep
                   /\ \A i \in 1..BufferKeep :
                         inputBuffer'[i] = pre[Len(pre) - BufferKeep + i]]_vars

\* the keypress that typed 'B' onto 1000 characters left the last 500
C5_Witness ==
    /\ event = "keypress"
    /\ key.ch = <<66>>
    /\ Len(inputBuffer) = BufferKeep
    /\ inputBuffer[BufferKeep] = 66
    /\ inputBuffer[BufferKeep - 1] = typedSoFar(BufferCap)[BufferCap]

(***************************************************************************)
(* C6: a keypress received while Locked appends a printable character      *)
(* (code 32..126), removes the last character when it is a backspace event *)
(* (key name 'backspace', also when it carries the control code 127 or 8), *)
(* and leaves the buffer as it is for every other key.                     *)
(***************************************************************************)
C6_KeypressEffect ==
    [][(event' = "keypress" /\ checks' = 1) =>
         LET printable == /\ Len(key'.ch) = 1
                          /\ key'.ch[1] \in PrintableMin..PrintableMax
             expected == IF printable THEN Append(inputBuffer, key'.ch[1])
                         ELSE IF key'.name = "backspace"
                              THEN SubSeq(inputBuffer, 1, Len(inputBuffer) - 1)
                              ELSE inputBuffer
         IN  inputBuffer' = truncated(expected)]_vars

(***************************************************************************)
(* C7: when the process has ended, by unlock, by timeout or by a signal    *)
(* that was not intercepted, terminal restoration has run: the keypress    *)
(* and resize listeners are removed, raw mode is off, the cursor is shown. *)
(***************************************************************************)
C7_RestoredOnEveryExit ==
    Lifecycle = "Exited" =>
        /\ term.cleanups >= 1
        /\ ~term.rawMode
        /\ ~term.cursorHidden
        /\ term.listeners \cap {"keypress", "resize"} = {}

(***************************************************************************)
(* C8: with the signal guard enabled, an interrupt, suspend or quit        *)
(* request leaves the lifecycle state, the input buffer, the frame timer   *)
(* and the timeout timer as they are and does not end the process; it      *)
(* writes one bell when sound is enabled and nothing otherwise.            *)
(***************************************************************************)
C8_GuardedSignalOnlyBeeps ==
    [][(event' = "signal" /\ CONFIG.blockSignals) =>
         /\ Lifecycle' = Lifecycle
         /\ proc' = "running"
         /\ UNCHANGED <<running, inputBuffer, loopTimeout, frameTimers,
                        timeoutHandle, index, msgTimer, term, exitCode>>
         /\ effects' = IF CONFIG.sound THEN <<"bell">> ELSE <<>>]_vars

\* a guarded signal beeped while the lock was on, both timers pending
C8_Witness ==
    /\ event = "signal"
    /\ CONFIG.blockSignals
    /\ effects = <<"bell">>
    /\ Lifecycle = "Locked"
    /\ inputBuffer # <<>>
    /\ frameTimers = 1
    /\ timeoutHandle = "armed"

(***************************************************************************)
(* C9: with the signal guard enabled and no timeout configured, the        *)
(* lifecycle stays Locked and the process keeps running until a keypress   *)
(* leaves the buffer matching the passphrase.                              *)
(***************************************************************************)
C9_NoBypass ==
    [][(CONFIG.blockSignals /\ CONFIG.timeout = 0) =>
         \/ Lifecycle' = "Locked" /\ proc' = "running"
         \/ /\ matches(inputBuffer', CONFIG.passphraseWords)
            /\ Lifecycle = "Locked" => event' = "keypress"]_vars

\* signals were delivered to a guarded lock with no timeout: still Locked
C9_Witness ==
    /\ CONFIG.blockSignals
    /\ CONFIG.timeout = 0
    /\ event = "signal"
    /\ Lifecycle = "Locked"
    /\ proc = "running"
    /\ inputBuffer # <<>>

(***************************************************************************)
(* C10: the exit outcomes are exclusive.  The timeout handler ends the     *)
(* process with status 1, before any match and with no exit message        *)
(* written; after a match the timeout timer is no longer pending and the   *)
(* only status is 0; status 0 is given only after a match, the messages    *)
(* shown.                                                                  *)
(***************************************************************************)
C10_ExitOutcomes ==
    /\ event = "timeout" => (proc = "exited" /\ exitCode = 1)
    /\ exitCode = 1 =>
          /\ event = "timeout"
          /\ index = 0
          /\ msgTimer = "none"
          /\ ~matches(inputBuffer, CONFIG.passphraseWords)
    /\ matches(inputBuffer, CONFIG.passphraseWords) =>
          /\ timeoutHandle # "armed"
          /\ exitCode \in {-1, 0}
    /\ exitCode = 0 =>
          /\ matches(inputBuffer, CONFIG.passphraseWords)
          /\ index = CONFIG.exitMessages
    /\ proc = "exited" <=> exitCode \in {0, 1}

\* the timeout fired on a lock somebody had typed into without a match
C10_Witness ==
    /\ exitCode = 1
    /\ event = "timeout"
    /\ inputBuffer # <<>>
    /\ Lifecycle = "Exited"

\* the handler that ran last wrote an exit message
wroteMessage == \E k \in 1..Len(effects) : effects[k] = "message"

(***************************************************************************)
(* C11: after a match the exit messages are written one at a time, in      *)
(* list order, on consecutive rows, each one messageDelay after the one    *)
(* before; the terminal is restored and the process exits with status 0    *)
(* exactly one messageDelay after the last message was written; the exit   *)
(* is always eventually reached.                                           *)
(***************************************************************************)
C11_ExitOneDelayAfterLast ==
    /\ [][/\ wroteMessage' =>
               /\ index' = index + 1
               /\ event' = "keypress" => index = 0
               /\ event' # "keypress" =>
                     /\ sinceMessage = CONFIG.messageDelay
                     /\ row' = row + 1
          /\ event' = "exit" =>
               /\ index = CONFIG.exitMessages
               /\ sinceMessage = CONFIG.messageDelay
               /\ exitCode' = 0
               /\ ~term'.rawMode /\ ~term'.cursorHidden]_vars
    /\ (Lifecycle = "Unlocking") ~> (exitCode = 0)

(***************************************************************************)
(* C11, amended: after a match the exit messages are written one at a      *)
(* time, in list order, message i (from 0) at row floor(height / 2) -      *)
(* floor(n / 2) + i + 1 of the height the terminal then has (consecutive   *)
(* rows while the terminal is not resized), each one messageDelay after    *)
(* the one before; the terminal is restored and the process exits with     *)
(* status 0 exactly two messageDelays after the last message was written;  *)
(* with the signal guard on the exit is always eventually reached.         *)
(***************************************************************************)
C11_ExitTwoDelaysAfterLast ==
    /\ [][/\ wroteMessage' =>
               /\ index' = index + 1
               /\ event' = "keypress" => index = 0
               /\ event' # "keypress" => sinceMessage = CONFIG.messageDelay
               /\ row' - (height' \div 2) = index + 1 - (CONFIG.exitMessages \div 2)
          /\ event' = "exit" =>
               /\ index = CONFIG.exitMessages
               /\ sinceMessage = 2 * CONFIG.messageDelay
               /\ exitCode' = 0
               /\ ~term'.rawMode /\ ~term'.cursorHidden]_vars
    /\ (Lifecycle = "Unlocking") ~> (exitCode = 0)

\* two messages were written, the second one row below the first, and the
\* process exited two delays after the second
C11_Witness ==
    /\ event = "exit"
    /\ exitCode = 0
    /\ index = 2
    /\ CONFIG.exitMessages = 2
    /\ sinceMessage = 2 * CONFIG.messageDelay
    /\ row = (height \div 2) + 2 - (CONFIG.exitMessages \div 2)

(***************************************************************************)
(* C12: once the printable characters typed since start(), no backspace    *)
(* among them, contain every word of the passphrase, the lock is off,      *)
(* however many other characters were typed before, between or after the   *)
(* words.                                                                  *)
(***************************************************************************)
C12_TypedWordsUnlock ==
    matches(typed, CONFIG.passphraseWords) => Lifecycle # "Locked"

\* the handler that ran last rendered a frame
wroteFrame == \E k \in 1..Len(effects) : effects[k] = "frame"

(***************************************************************************)
(* C13: the frame that advances a drop also wraps it.  After a frame of    *)
(* the matrix theme a drop whose advanced position exceeded height +       *)
(* length is above the screen (position < 0); after a frame of the rain    *)
(* theme a drop whose advanced position reached the bottom (>= height - 1) *)
(* is at position 0; a drop that did not pass its limit has moved by its   *)
(* speed, and no frame leaves a drop past its limit.  Positions are in     *)
(* half rows.                                                              *)
(***************************************************************************)
C13_DropsWrapInSameFrame ==
    [][(event' = "frame" /\ wroteFrame') =>
         /\ CONFIG.theme = "matrix" =>
              /\ Len(matrixDrops') = Len(matrixDrops)
              /\ \A x \in 1..Len(matrixDrops) :
                    /\ IF matrixDrops[x].y + matrixDrops[x].speed >
                             2 * (height + matrixDrops[x].length)
                       THEN matrixDrops'[x].y < 0
                       ELSE matrixDrops'[x].y = matrixDrops[x].y + matrixDrops[x].speed
                    /\ matrixDrops'[x].y <= 2 * (height + matrixDrops'[x].length)
         /\ CONFIG.theme = "rain" =>
              /\ Len(rainDrops') = Len(rainDrops)
              /\ \A k \in 1..Len(rainDrops) :
                    /\ IF rainDrops[k].y + rainDrops[k].speed >= 2 * (height - 1)
                       THEN rainDrops'[k].y = 0
                       ELSE rainDrops'[k].y = rainDrops[k].y + rainDrops[k].speed
                    /\ rainDrops'[k].y = 0 \/ rainDrops'[k].y < 2 * (height - 1)]_vars

\* a frame of the matrix theme has wrapped a drop, another is on its way down
C13_Witness ==
    /\ CONFIG.theme = "matrix"
    /\ event = "frame"
    /\ \E x \in 1..Len(matrixDrops) : matrixDrops[x].y < 0
    /\ \E x \in 1..Len(matrixDrops) : matrixDrops[x].y > 2 * height

(***************************************************************************)
(* C14: in a buffer that is zero but for one cell seeded at the maximum    *)
(* intensity, with no cell seeded in later frames, the value of the        *)
(* seeded cell never increases from one diffusion step to the next.        *)
(***************************************************************************)
C14_SeededCellDecays ==
    [][fireBuffer'[seedCell + 1] <= fireBuffer[seedCell + 1]]_vars

\* the seeded cell has decayed twice and its heat has spread to another cell
C14_Witness ==
    /\ fireBuffer[seedCell + 1] = 4
    /\ \E i \in 1..Len(fireBuffer) : i # seedCell + 1 /\ fireBuffer[i] > 0

(***************************************************************************)
(* C15: in every reachable state every cell of the fire buffer is an       *)
(* integer from 0 to 65, so the glyph index of a cell, clamped at 9, is    *)
(* one of 0..9.                                                            *)
(***************************************************************************)
C15_FireCellsBounded ==
    \A i \in 1..Len(fireBuffer) :
        /\ fireBuffer[i] \in 0..SeedIntensity
        /\ glyphIndex(fireBuffer[i]) \in 0..9

\* a frame seeded a cell next to a warm one: a cell above the clamp, hotter
\* than a lone seed leaves it, and a cell below the clamp
C15_Witness ==
    /\ CONFIG.theme = "fire"
    /\ event = "frame"
    /\ \E i \in 1..Len(fireBuffer) : fireBuffer[i] > SeedIntensity \div 4
    /\ \E i \in 1..Len(fireBuffer) : fireBuffer[i] \in 1..9

(***************************************************************************)
(* C16: when sound is enabled, a keypress produces a terminal bell.        *)
(***************************************************************************)
C16_KeypressBeeps ==
    [][(event' = "keypress" /\ CONFIG.sound) =>
         \E k \in 1..Len(effects') : effects'[k] = "bell"]_vars

(***************************************************************************)
(* C17: in every state where the lifecycle is not Locked neither a frame   *)
(* timer nor the timeout timer is pending: the handler that leaves Locked  *)
(* cancels both, so no frame tick and no timeout runs after it.  (A        *)
(* process ended by a signal it does not handle runs no handler and has    *)
(* no timers to speak of.)                                                 *)
(***************************************************************************)
C17_NoTimerOutsideLocked ==
    [][/\ (Lifecycle' # "Locked" /\ proc' # "killed") =>
             /\ frameTimers' = 0
             /\ loopTimeout' # "armed"
             /\ timeoutHandle' # "armed"
       /\ Lifecycle # "Locked" => event' \notin {"frame", "timeout"}]_vars

\* the matching keypress cancelled a pending frame timer and a pending
\* timeout timer
C17_Witness ==
    /\ Lifecycle = "Unlocking"
    /\ event = "keypress"
    /\ CONFIG.timeout # 0
    /\ timeoutHandle = "stale"
    /\ loopTimeout = "stale"
    /\ frameTimers = 0

(***************************************************************************)
(* C18: the render loop does not stall while the lifecycle is Locked:      *)
(* with the frame timer firing when due, frames are rendered again and     *)
(* again for as long as the lifecycle stays Locked, whatever keypresses,   *)
(* resizes and signals come in between (a process a signal has suspended   *)
(* renders when it is continued); once Locked is left no frame is          *)
(* rendered any more.  (beat flips with every frame tick, and a frame tick *)
(* while Locked renders.)                                                  *)
(***************************************************************************)
C18_LoopNeverStalls ==
    /\ []<>(Lifecycle # "Locked" \/ proc = "stopped" \/ beat)
    /\ []<>(Lifecycle # "Locked" \/ proc = "stopped" \/ ~beat)
    /\ [][/\ Lifecycle # "Locked" => (event' # "frame" /\ ~wroteFrame')
          /\ (beat' # beat /\ Lifecycle = "Locked") => wroteFrame']_vars

\* a frame was rendered after keypresses that did not match
C18_Witness ==
    /\ event = "frame"
    /\ wroteFrame
    /\ Lifecycle = "Locked"
    /\ Len(inputBuffer) = MaxTyped
    /\ frameTimers = 1

(***************************************************************************)
(* C19: after start() and after any resizes the state of the active theme  *)
(* fits the current width and height whenever a frame is rendered: the     *)
(* fire buffer has width * height + width + 1 cells, the matrix theme has  *)
(* exactly one drop per column (and the rain theme floor(width * 0.3)      *)
(* drops).                                                                 *)
(***************************************************************************)
C19_ThemeFitsDimensions ==
    started =>
        /\ CONFIG.theme = "fire" => Len(fireBuffer) = width * height + width + 1
        /\ CONFIG.theme = "matrix" => Len(matrixDrops) = width
        /\ CONFIG.theme = "rain" => Len(rainDrops) = (width * 3) \div 10

\* a frame of the fire theme was rendered in the 9-column terminal, the
\* buffer warm from earlier frames
C19_Witness ==
    /\ CONFIG.theme = "fire"
    /\ event = "frame"
    /\ wroteFrame
    /\ width = 9
    /\ Len(fireBuffer) = 19
    /\ \E i \in 1..Len(fireBuffer) : fireBuffer[i] \in 1..3

(***************************************************************************)
(* C20: when the process exits after an unlock, exactly 3 bells have been  *)
(* written by the unlock sound if sound is enabled, whatever messageDelay  *)
(* and exit messages are configured, and none if sound is disabled.        *)
(***************************************************************************)
C20_ThreePulsesBeforeExit ==
    exitCode = 0 => count = IF CONFIG.sound THEN UnlockPulses ELSE 0

(***************************************************************************)
(* C21: a frame of the fire theme is a double-buffered step.  With p the   *)
(* buffer after the frame's seeding and before any cell is updated, every  *)
(* index the diffusion reads is inside the buffer and every cell i <       *)
(* width * height is left at floor((p[i] + p[i+1] + p[i+width] +           *)
(* p[i+width+1]) / 4); the cells below the last row are left as they are.  *)
(***************************************************************************)
C21_DiffusionIsDoubleBuffered ==
    [][(event' = "frame" /\ wroteFrame' /\ CONFIG.theme = "fire") =>
         \E S \in seedChoices(width, height) :
            LET p == seeded(fireBuffer, S)
            IN  /\ Len(fireBuffer') = Len(p)
                /\ \A i \in 0..(Len(p) - 1) :
                      IF i < width * height
                      THEN /\ i + width + 1 < Len(p)
                           /\ fireBuffer'[i + 1] =
                                 (p[i + 1] + p[i + 2] + p[i + width + 1] +
                                  p[i + width + 2]) \div 4
                      ELSE fireBuffer'[i + 1] = p[i + 1]]_vars

\* a frame left heat in two neighbouring cells: the left one was computed
\* from the right one as it was before the frame
C21_Witness ==
    /\ CONFIG.theme = "fire"
    /\ event = "frame"
    /\ wroteFrame
    /\ \E i \in 1..(Len(fireBuffer) - 1) : fireBuffer[i] > 0 /\ fireBuffer[i + 1] > 0

\* the terminal and listener state cleanup is about: the listeners it
\* removes, raw mode, the cursor
restored(t) ==
    [listeners |-> t.listeners \ {"exit"}, rawMode |-> t.rawMode,
     cursorHidden |-> t.cursorHidden]

(***************************************************************************)
(* C22: terminal restoration is idempotent.  In every state, running       *)
(* cleanup twice leaves the terminal and the listeners as running it once  *)
(* does: no keypress, resize or signal listener, raw mode off, the cursor  *)
(* shown.  A process.exit after the explicit cleanup runs it a second      *)
(* time through the exit hook and ends in exactly that state, the hook     *)
(* itself gone.                                                            *)
(***************************************************************************)
C22_CleanupIdempotent ==
    [][/\ restored(cleanup(cleanup(term'))) = restored(cleanup(term'))
       /\ restored(cleanup(term')) =
             [listeners |-> {}, rawMode |-> FALSE, cursorHidden |-> FALSE]
       /\ event' \in {"exit", "timeout"} =>
             /\ term'.cleanups = 2
             /\ restored(term') = restored(cleanup(term))
             /\ term'.listeners = {}]_vars

\* the exit after an unlock ran cleanup twice on a terminal in raw mode with
\* the signal guard registered
C22_Witness ==
    /\ event = "exit"
    /\ exitCode = 0
    /\ CONFIG.blockSignals
    /\ term.cleanups = 2
    /\ term.listeners = {}
    /\ ~term.rawMode
    /\ ~term.cursorHidden

\* at most one frame timer is pending, and loopTimeout is that timer
oneChain ==
    /\ frameTimers \in {0, 1}
    /\ loopTimeout = "armed" <=> frameTimers = 1

(***************************************************************************)
(* C23: in every reachable state at most one frame timer is pending, and   *)
(* loopTimeout refers to a pending timer exactly when there is one:        *)
(* start() sets the first, every frame tick consumes the one that fired    *)
(* and sets one, and keypresses, resizes and signals set none.  So a step  *)
(* that cancels loopTimeout leaves no frame timer pending, and no frame    *)
(* tick follows a state where loopTimeout is not pending.                  *)
(***************************************************************************)
C23_SingleRenderChain ==
    [][/\ oneChain
       /\ oneChain'
       /\ (loopTimeout = "armed" /\ loopTimeout' # "armed") => frameTimers' = 0
       /\ loopTimeout # "armed" => event' # "frame"
       /\ event' \in {"keypress", "resize", "signal", "continue"} =>
             frameTimers' <= frameTimers]_vars

\* one frame timer is pending after a frame tick that followed keypresses,
\* in a program that handles the signals
C23_Witness ==
    /\ Lifecycle = "Locked"
    /\ event = "frame"
    /\ wroteFrame
    /\ frameTimers = 1
    /\ loopTimeout = "armed"
    /\ Len(inputBuffer) = MaxTyped
    /\ <<width, height>> = <<2, 3>>
    /\ CONFIG.blockSignals

====
